---- MODULE Spec2Model ----
(***************************************************************************)
(* Cosmetic inventory dashboard (src/dashboard.py): the four tables of     *)
(* cosmetic_inventory.db, the button handlers that change them, and the    *)
(* session state that carries a feasibility result to the confirm button.  *)
(*                                                                         *)
(* REAL columns are modelled as exact integers (grams); the transaction    *)
(* types "입고"/"출고" are written "inbound"/"outbound".                   *)
(***************************************************************************)
EXTENDS Integers, Sequences, FiniteSets, TLC

VARIABLES
    inventory,           \* table inventory: sequence of rows, row i has id i
    formula,             \* table formula: sequence of rows in insertion order
    transactions,        \* table transactions: set of rows, each with its id
    production_history,  \* table production_history: set of rows, each with its id
    sqlite_sequence,     \* AUTOINCREMENT counters of transactions and production_history
    session_state,       \* st.session_state: calc_done, used_table, sufficient
    ret,                 \* what the last handler reported: op, status, id
    planned,             \* history: the widget values the stored used_table was computed
                         \* from, whether the database was written since, and whether
                         \* the calculation repeated the one before it
    mark,                \* history: the stock and the transactions where the current
                         \* run of record/delete calls began
    pre_confirm,         \* history: the stock before the last button press, when that
                         \* press was a successful production confirmation
    clicks               \* history: how many buttons have been pressed

vars == <<inventory, formula, transactions, production_history, sqlite_sequence,
          session_state, ret, planned, mark, pre_confirm, clicks>>

----------------------------------------------------------------------------
(* Bounds of the model *)

MaxClicks == 5     \* buttons pressed in one run of the program
MaxInv == 2        \* rows of inventory
MaxFormula == 2    \* rows of formula
MaxTx == 2         \* transaction ids ever issued
MaxRun == 1        \* production run ids ever issued
MaxStock == 3      \* |stock| of a row
MaxQty == 1        \* largest quantity of a transaction
MaxCount == 2      \* largest unit capacity and unit count

Materials == {"A", "B"}
Products == {"P", "Q"}
Types == {"inbound", "outbound"}
Quantities == 1..MaxQty      \* st.number_input(min_value=0.0)
Counts == 1..MaxCount        \* st.number_input(min_value=1)
Usages == 1..1
Ids == 1..(MaxTx + 1)        \* st.number_input(min_value=1, step=1)

----------------------------------------------------------------------------
(* The database file and SQL statements *)

Db == [inventory |-> inventory, formula |-> formula, transactions |-> transactions,
       production_history |-> production_history, sqlite_sequence |-> sqlite_sequence]

EmptyDb == [inventory |-> <<>>, formula |-> <<>>, transactions |-> {},
            production_history |-> {},
            sqlite_sequence |-> [transactions |-> 0, production_history |-> 0]]

Persist(d) ==
    /\ inventory' = d.inventory
    /\ formula' = d.formula
    /\ transactions' = d.transactions
    /\ production_history' = d.production_history
    /\ sqlite_sequence' = d.sqlite_sequence

\* faulty variant: every statement is committed as it is executed
with_connection_autocommit(d, work, committed) == work

\* with_connection: the connection is closed in the finally clause; what was
\* not committed by then is rolled back by sqlite.
with_connection(d, work, committed) == IF committed THEN work ELSE d

\* faulty variant: the update floors the stock at zero
UpdateStock_floor(d, name, delta) ==
    [d EXCEPT !.inventory =
        [i \in DOMAIN d.inventory |->
            IF d.inventory[i].name = name
            THEN [d.inventory[i] EXCEPT
                     !.stock = IF @ + delta < 0 /\ delta < 0 THEN (IF @ < 0 THEN @ ELSE 0)
                               ELSE @ + delta]
            ELSE d.inventory[i]]]

\* UPDATE inventory SET "재고량 (g)" = "재고량 (g)" + ? WHERE 원료명 = ?
UpdateStock(d, name, delta) ==
    [d EXCEPT !.inventory =
        [i \in DOMAIN d.inventory |->
            IF d.inventory[i].name = name
            THEN [d.inventory[i] EXCEPT !.stock = @ + delta]
            ELSE d.inventory[i]]]

\* INSERT INTO transactions (원료명, 유형, "수량 (g)", 날짜, 비고)
InsertTransaction(d, name, type, qty) ==
    LET id == d.sqlite_sequence.transactions + 1
    IN [d EXCEPT !.transactions = @ \cup {[id |-> id, name |-> name, type |-> type, qty |-> qty]},
                 !.sqlite_sequence.transactions = id]

\* DELETE FROM transactions WHERE id = ?
DeleteTransaction(d, id) ==
    [d EXCEPT !.transactions = {t \in @ : t.id # id}]

\* INSERT INTO production_history (제품명, "용량 (g)", 수량, 날짜)
InsertProduction(d, product, cap, units) ==
    LET id == d.sqlite_sequence.production_history + 1
    IN [d EXCEPT !.production_history =
                     @ \cup {[id |-> id, product |-> product, cap |-> cap, units |-> units]},
                 !.sqlite_sequence.production_history = id]

\* DELETE FROM production_history WHERE id = ?
DeleteProduction(d, id) ==
    [d EXCEPT !.production_history = {h \in @ : h.id # id}]

\* INSERT INTO inventory (원료명, "재고량 (g)", ...) VALUES (?, 0, ...)
InsertInventory(d, name, stock) ==
    [d EXCEPT !.inventory = Append(@, [name |-> name, stock |-> stock])]

\* INSERT INTO formula, as to_sql(if_exists="append") does for a sheet row
InsertFormula(d, product, material, usage) ==
    [d EXCEPT !.formula = Append(@, [product |-> product, material |-> material, usage |-> usage])]

InRange(d) == \A i \in DOMAIN d.inventory :
                 /\ d.inventory[i].stock <= MaxStock
                 /\ d.inventory[i].stock >= -MaxStock

Stock(d) == [i \in DOMAIN d.inventory |-> d.inventory[i].stock]

Snapshot(d) == [stock |-> Stock(d), transactions |-> d.transactions]

\* the stored plan is stale once a handler has changed the database
Written(d2) == [planned EXCEPT !.stale = @ \/ (planned.product # "" /\ d2 # Db)]

InventoryNames(d) == {d.inventory[i].name : i \in DOMAIN d.inventory}

----------------------------------------------------------------------------
(* Transactions: record_transaction, delete_transaction_and_restore_inventory *)

\* float(text), 0.0 when the text is no number
num_or_zero(x) == IF x \in Int THEN x ELSE 0

\* A handler's storage failure: 0 is none, f > 0 means the f-th write of the
\* handler (its commit being the last) raised.
Failures(n) == 0..(n + 1)

Done(n, fail) == IF fail = 0 THEN n ELSE fail - 1

\* the connection after the first k statements of record_transaction
record_transaction_work(d, name, type, qty, k) ==
    LET s1 == InsertTransaction(d, name, type, num_or_zero(qty))
        s2 == UpdateStock(s1, name, IF type = "inbound" THEN qty ELSE -qty)
    IN IF k = 0 THEN d ELSE IF k = 1 THEN s1 ELSE s2

record_transaction(d, name, type, qty, fail) ==
    with_connection(d, record_transaction_work(d, name, type, qty, Done(2, fail)), fail = 0)

\* faulty variant: the SELECT matches every id up to the one asked for
TransactionRows_upto(d, trans_id) == {t \in d.transactions : t.id <= trans_id}

\* SELECT 원료명, 유형, "수량 (g)" FROM transactions WHERE id = ?
TransactionRows(d, trans_id) == {t \in d.transactions : t.id = trans_id}

\* faulty variant: the restore repeats the transaction instead of reverting it
delete_transaction_work_repeat(d, trans_id, k) ==
    LET row == CHOOSE t \in TransactionRows(d, trans_id) : TRUE
        s1 == UpdateStock(d, row.name, IF row.type = "inbound" THEN row.qty ELSE -row.qty)
        s2 == DeleteTransaction(s1, trans_id)
    IN IF k = 0 THEN d ELSE IF k = 1 THEN s1 ELSE s2

\* the connection after the first k statements that follow the SELECT
delete_transaction_work(d, trans_id, k) ==
    LET row == CHOOSE t \in TransactionRows(d, trans_id) : TRUE
        s1 == UpdateStock(d, row.name, IF row.type = "inbound" THEN -row.qty ELSE row.qty)
        s2 == DeleteTransaction(s1, trans_id)
    IN IF k = 0 THEN d ELSE IF k = 1 THEN s1 ELSE s2

delete_transaction_and_restore_inventory(d, trans_id, fail) ==
    IF TransactionRows(d, trans_id) = {}
    THEN d
    ELSE with_connection(d, delete_transaction_work(d, trans_id, Done(2, fail)), fail = 0)

\* add_new_ingredient: one INSERT with stock 0, committed
add_new_ingredient(d, name) == InsertInventory(d, name, 0)

\* button "거래 기록 저장": a transaction on an ingredient picked from the inventory
existing_ingr(name, type, qty, fail) ==
    /\ name \in InventoryNames(Db)
    /\ LET d2 == record_transaction(Db, name, type, qty, fail)
       IN /\ InRange(d2)
          /\ d2.sqlite_sequence.transactions <= MaxTx
          /\ Persist(d2)
          /\ planned' = Written(d2)
    /\ ret' = [op |-> "record", status |-> IF fail = 0 THEN "ok" ELSE "error", id |-> 0]
    /\ pre_confirm' = <<>>
    /\ UNCHANGED <<session_state, mark>>

\* button "신규 원료 생성 및 거래 기록": add the ingredient, then record on it
new_ingr(name, type, qty, fail) ==
    /\ Len(inventory) < MaxInv
    /\ LET d1 == add_new_ingredient(Db, name)
           d2 == record_transaction(d1, name, type, qty, fail)
       IN /\ InRange(d2)
          /\ d2.sqlite_sequence.transactions <= MaxTx
          /\ Persist(d2)
          /\ mark' = Snapshot(d1)
          /\ planned' = Written(d2)
    /\ ret' = [op |-> "add_record", status |-> IF fail = 0 THEN "ok" ELSE "error", id |-> 0]
    /\ pre_confirm' = <<>>
    /\ UNCHANGED session_state

\* button "거래 삭제"
delete_transaction(trans_id, fail) ==
    /\ fail = 0 \/ TransactionRows(Db, trans_id) # {}
    /\ LET d2 == delete_transaction_and_restore_inventory(Db, trans_id, fail)
       IN /\ InRange(d2)
          /\ Persist(d2)
          /\ planned' = Written(d2)
    /\ ret' = [op |-> "delete",
               status |-> IF TransactionRows(Db, trans_id) = {} THEN "not_found"
                          ELSE IF fail = 0 THEN "ok" ELSE "error",
               id |-> 0]
    /\ pre_confirm' = <<>>
    /\ UNCHANGED <<session_state, mark>>

----------------------------------------------------------------------------
(* Inventory editor and Excel upload *)

\* update_inventory_from_df: one UPDATE per row of the edited table, by id;
\* the edit changes the name and the stock of row i
update_inventory_from_df(d, i, name, stock) ==
    [d EXCEPT !.inventory[i] = [name |-> name, stock |-> stock]]

\* button "수정 내용 저장"
save_inventory(i, name, stock) ==
    /\ i \in DOMAIN inventory
    /\ LET d2 == update_inventory_from_df(Db, i, name, stock)
       IN /\ Persist(d2)
          /\ mark' = Snapshot(d2)
          /\ planned' = Written(d2)
    /\ ret' = [op |-> "edit", status |-> "ok", id |-> 0]
    /\ pre_confirm' = <<>>
    /\ UNCHANGED session_state

\* button "업로드 실행 (엑셀 -> DB)": sync_sheet_to_db appends the rows of each
\* sheet to its table; the workbooks drawn hold one row in one sheet
Workbooks ==
    [sheet : {"inventory"}, name : Materials, stock : {0, MaxQty}]
    \cup [sheet : {"formula"}, product : Products, material : Materials, usage : Usages]
    \cup [sheet : {"transactions"}, name : Materials, type : Types, qty : {MaxQty}]
    \cup [sheet : {"production_history"}, product : Products, cap : {1}, units : {1}]

sync_sheet_to_db(d, wb) ==
    CASE wb.sheet = "inventory" -> InsertInventory(d, wb.name, wb.stock)
      [] wb.sheet = "formula" -> InsertFormula(d, wb.product, wb.material, wb.usage)
      [] wb.sheet = "transactions" -> InsertTransaction(d, wb.name, wb.type, wb.qty)
      [] wb.sheet = "production_history" -> InsertProduction(d, wb.product, wb.cap, wb.units)

upload(wb) ==
    /\ LET d2 == sync_sheet_to_db(Db, wb)
       IN /\ Len(d2.inventory) <= MaxInv
          /\ Len(d2.formula) <= MaxFormula
          /\ d2.sqlite_sequence.transactions <= MaxTx
          /\ d2.sqlite_sequence.production_history <= MaxRun
          /\ Persist(d2)
          /\ mark' = Snapshot(d2)
          /\ planned' = Written(d2)
    /\ ret' = [op |-> "upload", status |-> "ok", id |-> 0]
    /\ pre_confirm' = <<>>
    /\ UNCHANGED session_state

----------------------------------------------------------------------------
(* Production: feasibility calculation, confirmation, history deletion *)

\* SELECT 원료명, "사용량 (g/%)" FROM formula WHERE 제품명 = ?
get_formula_df(d, product_name) ==
    LET Of(r) == r.product = product_name
    IN SelectSeq(d.formula, Of)

RECURSIVE StockSum(_, _, _)
StockSum(inv, ingredient, n) ==
    IF n = 0 THEN 0
    ELSE StockSum(inv, ingredient, n - 1)
         + (IF inv[n].name = ingredient THEN inv[n].stock ELSE 0)

\* inv_df.loc[inv_df["원료명"] == ingredient, "재고량 (g)"].sum()
current_stock(d, ingredient) == StockSum(d.inventory, ingredient, Len(d.inventory))

\* faulty variant: the loop appends to the stored used_table instead of a fresh list
used_table_of_appending(d, product_name, unit_capacity, total_quantity) ==
    LET formula_df == get_formula_df(d, product_name)
    IN session_state.used_table \o
       [i \in 1..Len(formula_df) |->
           <<formula_df[i].material,
             formula_df[i].usage * unit_capacity * total_quantity,
             current_stock(d, formula_df[i].material)>>]

\* the loop of the calculation: (원료명, 필요량, 보유량) per formula row
used_table_of(d, product_name, unit_capacity, total_quantity) ==
    LET formula_df == get_formula_df(d, product_name)
    IN [i \in 1..Len(formula_df) |->
           <<formula_df[i].material,
             formula_df[i].usage * unit_capacity * total_quantity,
             current_stock(d, formula_df[i].material)>>]

\* faulty variant: the comparison is current_stock <= required_qty
sufficient_of_strict(used_table) ==
    \A i \in DOMAIN used_table : ~(used_table[i][3] <= used_table[i][2])

\* sufficient starts True and is cleared by any row with current_stock < required_qty
sufficient_of(used_table) ==
    \A i \in DOMAIN used_table : ~(used_table[i][3] < used_table[i][2])

NoPlan == [product |-> "", cap |-> 0, units |-> 0, stale |-> FALSE, again |-> FALSE]

NoSession == [calc_done |-> FALSE, used_table |-> <<>>, sufficient |-> FALSE]

\* button "생산 가능량 계산"
production_calc(product_name, unit_capacity, total_quantity) ==
    /\ Len(get_formula_df(Db, product_name)) > 0
    /\ LET used_table == used_table_of(Db, product_name, unit_capacity, total_quantity)
       IN session_state' = [calc_done |-> TRUE, used_table |-> used_table,
                            sufficient |-> sufficient_of(used_table)]
    /\ planned' = [product |-> product_name, cap |-> unit_capacity,
                   units |-> total_quantity, stale |-> FALSE,
                   again |-> /\ ~planned.stale
                             /\ planned.product = product_name
                             /\ planned.cap = unit_capacity
                             /\ planned.units = total_quantity]
    /\ ret' = [op |-> "plan", status |-> "ok", id |-> 0]
    /\ pre_confirm' = <<>>
    /\ UNCHANGED <<inventory, formula, transactions, production_history,
                   sqlite_sequence, mark>>

\* faulty variant: the loop skips a deduction the current stock does not cover
RECURSIVE Deduct_checked(_, _, _)
Deduct_checked(d, used_materials, k) ==
    IF k = 0 THEN d
    ELSE LET before == Deduct_checked(d, used_materials, k - 1)
         IN IF current_stock(before, used_materials[k][1]) < used_materials[k][2]
            THEN before
            ELSE UpdateStock(before, used_materials[k][1], -used_materials[k][2])

\* the stock after the first k UPDATEs of insert_production_history's loop
RECURSIVE Deduct(_, _, _)
Deduct(d, used_materials, k) ==
    IF k = 0 THEN d
    ELSE UpdateStock(Deduct(d, used_materials, k - 1),
                     used_materials[k][1], -used_materials[k][2])

\* the connection after the first k statements of insert_production_history
insert_production_history_work(d, product, cap, units, used_materials, k) ==
    IF k = 0 THEN d
    ELSE Deduct(InsertProduction(d, product, cap, units), used_materials, k - 1)

insert_production_history(d, product, cap, units, used_materials, fail) ==
    LET n == 1 + Len(used_materials)
    IN with_connection(d,
           insert_production_history_work(d, product, cap, units, used_materials,
                                          Done(n, fail)),
           fail = 0)

used_materials_of(used_table) ==
    [i \in DOMAIN used_table |-> <<used_table[i][1], used_table[i][2]>>]

\* faulty variant: the stored result survives the confirmation
session_reset_kept == session_state

\* the three assignments that follow a successful insert_production_history
session_reset == [calc_done |-> FALSE, used_table |-> <<>>, sufficient |-> FALSE]

\* button "생산 진행 확인", shown while calc_done and sufficient
production_confirm(product_name, unit_capacity, total_quantity, fail) ==
    /\ Len(get_formula_df(Db, product_name)) > 0
    /\ session_state.calc_done
    /\ session_state.sufficient
    /\ fail \in Failures(1 + Len(session_state.used_table))
    /\ LET used_materials == used_materials_of(session_state.used_table)
           d2 == insert_production_history(Db, product_name, unit_capacity,
                                           total_quantity, used_materials, fail)
       IN /\ InRange(d2)
          /\ d2.sqlite_sequence.production_history <= MaxRun
          /\ Persist(d2)
          /\ mark' = Snapshot(d2)
          /\ ret' = [op |-> "confirm", status |-> IF fail = 0 THEN "ok" ELSE "error",
                     id |-> IF fail = 0 THEN d2.sqlite_sequence.production_history ELSE 0]
    /\ session_state' = IF fail = 0 THEN session_reset ELSE session_state
    /\ planned' = IF fail = 0 THEN NoPlan ELSE planned
    /\ pre_confirm' = IF fail = 0 THEN Stock(Db) ELSE <<>>

HistoryRows(d, hist_id) == {h \in d.production_history : h.id = hist_id}

\* faulty variant: the restored quantity leaves out the number of units
RECURSIVE Restore_per_unit(_, _, _, _, _)
Restore_per_unit(d, df_formula, unit_capacity, total_qty, k) ==
    IF k = 0 THEN d
    ELSE UpdateStock(Restore_per_unit(d, df_formula, unit_capacity, total_qty, k - 1),
                     df_formula[k].material,
                     df_formula[k].usage * unit_capacity)

\* the stock after the first k UPDATEs of the restore loop
RECURSIVE Restore(_, _, _, _, _)
Restore(d, df_formula, unit_capacity, total_qty, k) ==
    IF k = 0 THEN d
    ELSE UpdateStock(Restore(d, df_formula, unit_capacity, total_qty, k - 1),
                     df_formula[k].material,
                     df_formula[k].usage * unit_capacity * total_qty)

\* the connection after the first k statements that follow the two reads
delete_production_history_work(d, hist_id, k) ==
    LET row == CHOOSE h \in d.production_history : h.id = hist_id
        df_formula == get_formula_df(d, row.product)
        n == Len(df_formula)
        restored == Restore(d, df_formula, row.cap, row.units, IF k < n THEN k ELSE n)
    IN IF k <= n THEN restored ELSE DeleteProduction(restored, hist_id)

\* "not_found" and "no_formula" are the two (False, message) returns
delete_production_history_status(d, hist_id, fail) ==
    IF HistoryRows(d, hist_id) = {} THEN "not_found"
    ELSE LET row == CHOOSE h \in d.production_history : h.id = hist_id
         IN IF Len(get_formula_df(d, row.product)) = 0 THEN "no_formula"
            ELSE IF fail = 0 THEN "ok" ELSE "error"

\* faulty variant: the row is deleted before the formula is looked up
delete_production_history_and_restore_early(d, hist_id, fail) ==
    IF delete_production_history_status(d, hist_id, fail) = "not_found"
    THEN d
    ELSE IF delete_production_history_status(d, hist_id, fail) = "no_formula"
    THEN DeleteProduction(d, hist_id)
    ELSE LET row == CHOOSE h \in d.production_history : h.id = hist_id
             n == Len(get_formula_df(d, row.product)) + 1
         IN with_connection(d, delete_production_history_work(d, hist_id, Done(n, fail)),
                            fail = 0)

delete_production_history_and_restore(d, hist_id, fail) ==
    IF delete_production_history_status(d, hist_id, fail) \in {"not_found", "no_formula"}
    THEN d
    ELSE LET row == CHOOSE h \in d.production_history : h.id = hist_id
             n == Len(get_formula_df(d, row.product)) + 1
         IN with_connection(d, delete_production_history_work(d, hist_id, Done(n, fail)),
                            fail = 0)

\* button "생산 이력 삭제"
delete_history(hist_id, fail) ==
    /\ LET status == delete_production_history_status(Db, hist_id, fail)
           d2 == delete_production_history_and_restore(Db, hist_id, fail)
       IN /\ fail = 0 \/ status = "error"
          /\ fail \in Failures(MaxFormula + 1)
          /\ status = "error" =>
                 LET row == CHOOSE h \in production_history : h.id = hist_id
                 IN fail \in Failures(Len(get_formula_df(Db, row.product)) + 1)
          /\ InRange(d2)
          /\ Persist(d2)
          /\ mark' = Snapshot(d2)
          /\ planned' = Written(d2)
          /\ ret' = [op |-> "delete_run", status |-> status, id |-> 0]
    /\ pre_confirm' = <<>>
    /\ UNCHANGED session_state

----------------------------------------------------------------------------
(* The program *)

Init ==
    /\ inventory = EmptyDb.inventory
    /\ formula = EmptyDb.formula
    /\ transactions = EmptyDb.transactions
    /\ production_history = EmptyDb.production_history
    /\ sqlite_sequence = EmptyDb.sqlite_sequence
    /\ session_state = NoSession
    /\ ret = [op |-> "start", status |-> "ok", id |-> 0]
    /\ planned = NoPlan
    /\ mark = Snapshot(EmptyDb)
    /\ pre_confirm = <<>>
    /\ clicks = 0

Click == clicks < MaxClicks /\ clicks' = clicks + 1

Next ==
    \/ \E name \in Materials, type \in Types, qty \in Quantities, fail \in Failures(2) :
           Click /\ existing_ingr(name, type, qty, fail)
    \/ \E name \in Materials, type \in Types, qty \in Quantities, fail \in Failures(2) :
           Click /\ new_ingr(name, type, qty, fail)
    \/ \E trans_id \in Ids, fail \in Failures(2) :
           Click /\ delete_transaction(trans_id, fail)
    \/ \E i \in 1..MaxInv, name \in Materials, stock \in {0, MaxQty} :
           Click /\ save_inventory(i, name, stock)
    \/ \E wb \in Workbooks :
           Click /\ upload(wb)
    \/ \E product_name \in Products, unit_capacity \in Counts, total_quantity \in Counts :
           Click /\ production_calc(product_name, unit_capacity, total_quantity)
    \/ \E product_name \in Products, unit_capacity \in Counts, total_quantity \in Counts,
          fail \in Failures(1 + MaxFormula) :
           Click /\ production_confirm(product_name, unit_capacity, total_quantity, fail)
    \/ \E hist_id \in 1..(MaxRun + 1), fail \in Failures(1 + MaxFormula) :
           Click /\ delete_history(hist_id, fail)

Spec == Init /\ [][Next]_vars

----------------------------------------------------------------------------
(* Properties.  "The stock of a material" is the stock of each inventory   *)
(* row carrying the material's name.                                       *)

DbUnchanged == UNCHANGED <<inventory, formula, transactions, production_history,
                           sqlite_sequence>>

Signed(t) == IF t.type = "inbound" THEN t.qty ELSE -t.qty

RECURSIVE SignedSum(_)
SignedSum(S) ==
    IF S = {} THEN 0
    ELSE LET t == CHOOSE x \in S : TRUE
         IN Signed(t) + SignedSum(S \ {t})

Named(S, name) == {t \in S : t.name = name}

\* transactions recorded in the current run of record/delete calls and still present
RecordedPresent == transactions \ mark.transactions

\* transactions that existed when the run began and were deleted in it
EarlierDeleted == mark.transactions \ transactions

\* C1 as stated: over a run of record and delete calls, the stock of every
\* material is its stock at the start of the run plus the signed quantities of
\* the transactions recorded in the run and still present.
C1_StockIsStartPlusRecorded ==
    \A i \in DOMAIN inventory :
        inventory[i].stock =
            mark.stock[i] + SignedSum(Named(RecordedPresent, inventory[i].name))

\* C1 amended: ... plus the signed quantities of the transactions recorded in
\* the run and still present, minus the signed quantities of the transactions
\* that existed before the run and were deleted in it.
C1_LedgerBalance ==
    \A i \in DOMAIN inventory :
        inventory[i].stock =
            mark.stock[i] + SignedSum(Named(RecordedPresent, inventory[i].name))
                          - SignedSum(Named(EarlierDeleted, inventory[i].name))

\* a run in which a recorded transaction remains and an earlier one was deleted
C1_Witness ==
    /\ ret.op = "delete" /\ ret.status = "ok"
    /\ \E i \in DOMAIN inventory :
          /\ Named(RecordedPresent, inventory[i].name) # {}
          /\ Named(EarlierDeleted, inventory[i].name) # {}
          /\ inventory[i].stock # mark.stock[i]

\* the run row a successful confirmation has just inserted
NewRun == CHOOSE h \in production_history' : h.id = ret'.id

Confirmed == ret'.op = "confirm" /\ ret'.status = "ok"

\* the usage per unit that row i of the stored used_table was computed from
PlannedUsage(i) == session_state.used_table[i][2] \div (planned.cap * planned.units)

\* C2 as stated: a confirmation followed at once by the deletion of the run
\* it created leaves every stock as it was just before the confirmation.
C2_ConfirmThenDeleteRestores ==
    [][(/\ ret.op = "confirm" /\ ret.status = "ok"
        /\ ret'.op = "delete_run" /\ ret'.status = "ok"
        /\ \E h \in production_history : h.id = ret.id
        /\ ~\E h \in production_history' : h.id = ret.id)
       => \A i \in DOMAIN inventory : inventory'[i].stock = pre_confirm[i]]_vars

\* C3 as stated: the quantities a confirmation deducts for the run
\* (product, capacity, units) it records are those of a feasibility result
\* computed from that product, capacity and units.
C3_ConfirmDeductsPlanOfItsInputs ==
    [][Confirmed =>
          /\ planned.product = NewRun.product
          /\ \A i \in DOMAIN session_state.used_table :
                session_state.used_table[i][2] = PlannedUsage(i) * NewRun.cap * NewRun.units]_vars

\* C4: a storage failure in record, delete, confirm or run deletion leaves the
\* tables as they were before the call, and a record or a delete never
\* persists the transaction change without the stock change or the reverse.
C4_AllOrNothing ==
    [][/\ (ret'.op \in {"record", "delete", "confirm", "delete_run"} /\ ret'.status = "error")
          => DbUnchanged
       /\ ret'.op = "record"
          => \/ DbUnchanged
             \/ \E r \in transactions' \ transactions :
                   /\ transactions' = transactions \cup {r}
                   /\ Stock(Db)' = [i \in DOMAIN inventory |->
                          inventory[i].stock
                          + (IF inventory[i].name = r.name THEN Signed(r) ELSE 0)]
       /\ ret'.op = "delete"
          => \/ DbUnchanged
             \/ \E r \in transactions \ transactions' :
                   /\ transactions' = transactions \ {r}
                   /\ Stock(Db)' = [i \in DOMAIN inventory |->
                          inventory[i].stock
                          - (IF inventory[i].name = r.name THEN Signed(r) ELSE 0)]
       /\ (ret'.op = "add_record" /\ ret'.status = "error")
          => /\ transactions' = transactions
             /\ \A i \in DOMAIN inventory : inventory'[i] = inventory[i]
             /\ inventory'[Len(inventory')].stock = 0]_vars

\* a record call has failed on a database that holds the material
C4_Witness == ret.op = "record" /\ ret.status = "error" /\ inventory # <<>>

\* C5: deleting a transaction id or a run id that matches no row reports
\* not-found and leaves every table unchanged.
C5_MissingIdNotFound ==
    [][/\ \A id \in Ids :
             (delete_transaction(id, 0) /\ ~\E t \in transactions : t.id = id)
             => (ret'.status = "not_found" /\ DbUnchanged)
       /\ \A id \in 1..(MaxRun + 1) :
             (delete_history(id, 0) /\ ~\E h \in production_history : h.id = id)
             => (ret'.status = "not_found" /\ DbUnchanged)]_vars

\* a missing id was asked for while rows that could be harmed exist
C5_Witness ==
    /\ ret.status = "not_found"
    /\ ret.op = "delete"
    /\ transactions # {}
    /\ inventory # <<>>

\* C6: deleting an existing run whose product has no formula rows reports the
\* missing formula, keeps the run row and leaves every stock unchanged.
C6_NoFormulaKeepsRun ==
    [][\A id \in 1..(MaxRun + 1) :
          (/\ delete_history(id, 0)
           /\ \E h \in production_history :
                 /\ h.id = id
                 /\ ~\E k \in DOMAIN formula : formula[k].product = h.product)
          => /\ ret'.status = "no_formula"
             /\ production_history' = production_history
             /\ inventory' = inventory]_vars

C6_Witness ==
    /\ ret.op = "delete_run"
    /\ ret.status = "no_formula"
    /\ production_history # {}
    /\ inventory # <<>>

\* C7: a feasibility calculation changes no table, and repeating it with the
\* same inputs, no table having changed, yields the same used_table and flag.
C7_PlanIsPure ==
    [][ret'.op = "plan" =>
          /\ DbUnchanged
          /\ planned'.again =>
                /\ session_state'.used_table = session_state.used_table
                /\ session_state'.sufficient = session_state.sufficient]_vars

C7_Witness ==
    /\ ret.op = "plan"
    /\ planned.again
    /\ Len(session_state.used_table) > 0

RECURSIVE SumOver(_, _)
SumOver(f, S) ==
    IF S = {} THEN 0
    ELSE LET x == CHOOSE y \in S : TRUE
         IN f[x] + SumOver(f, S \ {x})

\* the sum of stock over all inventory rows with the name
Available(name) ==
    SumOver([i \in DOMAIN inventory |-> inventory[i].stock],
            {i \in DOMAIN inventory : inventory[i].name = name})

\* the indexes of the formula rows of a product, in insertion order
RECURSIVE Entries(_, _)
Entries(product, n) ==
    IF n = 0 THEN <<>>
    ELSE IF formula[n].product = product
         THEN Append(Entries(product, n - 1), n)
         ELSE Entries(product, n - 1)

\* C8: while the tables are as the calculation read them, the stored result
\* holds, per formula entry of the product, required = usage * capacity * units
\* and available = the sum of stock over the rows of that name, and
\* sufficient is true exactly when available >= required for every entry.
C8_PlanValues ==
    (session_state.calc_done /\ ~planned.stale) =>
        LET e == Entries(planned.product, Len(formula))
            required(i) == formula[e[i]].usage * planned.cap * planned.units
        IN /\ Len(session_state.used_table) = Len(e)
           /\ \A i \in 1..Len(e) :
                 session_state.used_table[i] =
                     <<formula[e[i]].material, required(i),
                       Available(formula[e[i]].material)>>
           /\ session_state.sufficient <=>
                 \A i \in 1..Len(e) : Available(formula[e[i]].material) >= required(i)

\* a sufficient result with an entry whose stock just covers it, and one
\* whose material has no inventory row
C8_Witness ==
    /\ session_state.calc_done /\ ~planned.stale
    /\ \E i \in DOMAIN session_state.used_table :
          /\ session_state.used_table[i][3] = session_state.used_table[i][2]
          /\ session_state.used_table[i][2] > 0
    /\ session_state.sufficient

\* C9: a successful record inserts exactly one transaction row, adds +quantity
\* (inbound) or -quantity (outbound) to every row of the named material with
\* no floor at zero, and leaves the other rows, the formulas and the
\* production runs unchanged.
C9_RecordEffect ==
    [][\A n \in Materials, t \in Types, q \in Quantities :
          existing_ingr(n, t, q, 0) =>
             /\ ~\E x \in transactions : x.id = sqlite_sequence'.transactions
             /\ transactions' = transactions \cup
                   {[id |-> sqlite_sequence'.transactions, name |-> n, type |-> t, qty |-> q]}
             /\ DOMAIN inventory' = DOMAIN inventory
             /\ \A i \in DOMAIN inventory :
                   /\ inventory'[i].name = inventory[i].name
                   /\ inventory'[i].stock =
                         IF inventory[i].name # n THEN inventory[i].stock
                         ELSE IF t = "inbound" THEN inventory[i].stock + q
                         ELSE inventory[i].stock - q
             /\ UNCHANGED <<production_history, formula>>]_vars

\* an outbound record has driven a stock below zero
C9_Witness ==
    /\ ret.op = "record" /\ ret.status = "ok"
    /\ \E i \in DOMAIN inventory : inventory[i].stock < 0
    /\ \E i \in DOMAIN inventory, t \in transactions :
          t.name = inventory[i].name /\ t.type = "outbound"

\* the quantity a plan deducts from a name: the sum over its entries of that name
PlanTotal(used_table, name) ==
    SumOver([k \in DOMAIN used_table |-> used_table[k][2]],
            {k \in DOMAIN used_table : used_table[k][1] = name})

\* C10: a successful confirmation inserts exactly one run row, returns its new
\* id, subtracts from every row of each planned material the quantity the
\* plan requires of it without looking at the stock, and leaves the
\* transactions, the formulas, the other runs and the other rows unchanged.
C10_ConfirmEffect ==
    [][Confirmed =>
          /\ ~\E h \in production_history : h.id = ret'.id
          /\ \E h \in production_history' :
                /\ h.id = ret'.id
                /\ production_history' = production_history \cup {h}
          /\ DOMAIN inventory' = DOMAIN inventory
          /\ \A i \in DOMAIN inventory :
                /\ inventory'[i].name = inventory[i].name
                /\ inventory'[i].stock =
                      inventory[i].stock
                      - PlanTotal(session_state.used_table, inventory[i].name)
          /\ UNCHANGED <<transactions, formula>>]_vars

\* a confirmation has deducted more than the stock held
C10_Witness ==
    /\ ret.op = "confirm" /\ ret.status = "ok"
    /\ \E i \in DOMAIN inventory : inventory[i].stock < 0
    /\ \E h \in production_history : h.id = ret.id

\* the quantity a run's deletion restores to a name: the sum, over the entries
\* of the current formula of the run's product that carry the name, of
\* usage * capacity * units
RestoreTotal(h, name) ==
    LET e == Entries(h.product, Len(formula))
    IN SumOver([k \in 1..Len(e) |-> formula[e[k]].usage * h.cap * h.units],
               {k \in 1..Len(e) : formula[e[k]].material = name})

\* C11: deleting an existing run whose product has formula rows adds, for each
\* entry of the product's current formula, usage * capacity * units of the run
\* to every row of that entry's material, then removes exactly that run row;
\* the other runs, the transactions and the formulas are unchanged.
C11_DeleteRunEffect ==
    [][\A id \in 1..(MaxRun + 1) :
          (/\ delete_history(id, 0)
           /\ \E h \in production_history :
                 h.id = id /\ Entries(h.product, Len(formula)) # <<>>)
          => LET h == CHOOSE x \in production_history : x.id = id
             IN /\ ret'.status = "ok"
                /\ DOMAIN inventory' = DOMAIN inventory
                /\ \A i \in DOMAIN inventory :
                      /\ inventory'[i].name = inventory[i].name
                      /\ inventory'[i].stock =
                            inventory[i].stock + RestoreTotal(h, inventory[i].name)
                /\ production_history' = production_history \ {h}
                /\ UNCHANGED <<transactions, formula>>]_vars

\* a run has been deleted and a stock restored from the formula as it is now,
\* with a transaction and no run left
C11_Witness ==
    /\ ret.op = "delete_run" /\ ret.status = "ok"
    /\ production_history = {}
    /\ transactions # {}
    /\ \E i \in DOMAIN inventory, k \in DOMAIN formula :
          /\ formula[k].material = inventory[i].name
          /\ inventory[i].stock > 0

\* C12 as stated: when a calculation found the stock sufficient in a state
\* where every stock is non-negative, and no table has changed since, a
\* successful confirmation of that result leaves the stock of every material
\* of the result (the sum over the rows of its name) non-negative.
C12_SufficientPlanKeepsStockNonNegative ==
    [][(/\ Confirmed
        /\ ~planned.stale
        /\ \A i \in DOMAIN inventory : inventory[i].stock >= 0)
       => \A name \in Materials :
             (\E k \in DOMAIN session_state.used_table :
                 session_state.used_table[k][1] = name)
             => Available(name)' >= 0]_vars

\* C13 as stated: for a material name that has at least one inventory row, the
\* ledger adjustment made by a successful record, transaction deletion,
\* confirmation or run deletion changes the sum of stock over all rows of
\* that name by exactly the adjustment's delta.
C13_AdjustmentChangesSumByDelta ==
    [][\A name \in Materials :
          (\E i \in DOMAIN inventory' : inventory'[i].name = name)
          => /\ (ret'.op \in {"record", "add_record"} /\ ret'.status = "ok")
                => \E r \in transactions' \ transactions :
                      Available(name)' = Available(name)
                                         + (IF r.name = name THEN Signed(r) ELSE 0)
             /\ (ret'.op = "delete" /\ ret'.status = "ok")
                => \E r \in transactions \ transactions' :
                      Available(name)' = Available(name)
                                         - (IF r.name = name THEN Signed(r) ELSE 0)
             /\ Confirmed
                => Available(name)' = Available(name)
                                      - PlanTotal(session_state.used_table, name)
             /\ (ret'.op = "delete_run" /\ ret'.status = "ok")
                => \E h \in production_history \ production_history' :
                      Available(name)' = Available(name) + RestoreTotal(h, name)]_vars

\* C14: a feasibility result is committed at most once: a confirmation runs
\* only while a stored result with sufficient = true exists, a successful one
\* clears the stored result (calc_done false, empty used_table, sufficient
\* false), only a calculation sets sufficient again, and so no confirmation
\* follows a successful one directly.
C14_CommittedAtMostOnce ==
    [][/\ ret'.op = "confirm"
          => session_state.calc_done /\ session_state.sufficient
       /\ Confirmed
          => /\ ~session_state'.calc_done
             /\ session_state'.used_table = <<>>
             /\ ~session_state'.sufficient
       /\ (session_state'.sufficient /\ ~session_state.sufficient)
          => ret'.op = "plan"
       /\ (ret.op = "confirm" /\ ret.status = "ok")
          => ret'.op # "confirm"]_vars

\* a result has been confirmed and cleared while the stock would still cover it
C14_Witness ==
    /\ ret.op = "confirm" /\ ret.status = "ok"
    /\ session_state = NoSession
    /\ \E h \in production_history :
          /\ h.id = ret.id
          /\ \A k \in DOMAIN formula :
                formula[k].product = h.product
                => Available(formula[k].material) >= formula[k].usage * h.cap * h.units
    /\ \E k \in DOMAIN formula, h \in production_history : formula[k].product = h.product

====
